---- MODULE Spec2Model ----
(***************************************************************************)
(* The genetic search engine of genetic.py (get_best driving the          *)
(* generator _get_improvement) with the graph-colouring fitness and the   *)
(* custom mutation of graphColoringTests.py.                               *)
(*                                                                         *)
(* Chromosome objects live in a heap; the pool (parents), bestParent and   *)
(* the consumer's improvement hold references, so two references to one    *)
(* object observe the same Age.                                            *)
(***************************************************************************)
EXTENDS Integers, Sequences, FiniteSets, TLC

\* ---------------------------------------------------------------- bounds
\* largest pool size explored (poolSize ranges over -1 .. MaxPool)
MaxPool == 2
\* random.random() is drawn as one of DrawScale + 1 representative values
DrawScale == 6
\* Age is an unbounded counter in the code: a lateral move is taken only
\* while the parent's Age is less than AgeCap above maxAge (above 0 without)
AgeCap == 1

\* ---------------------------------------------------------- configuration
Colors == {"O", "Y"}
GeneSets == {{}, {"O"}, Colors}
TargetLens == {0, 2, 3}
PoolSizes == (-1) .. MaxPool
NoAge == 0
MaxAges == {NoAge, 2, 5}

\* The configurations explored.  The test's configuration (one parent, no
\* aging, no crossover) is explored with every operator, gene set, length
\* and pool size below 2; larger pools, aging and crossover are explored with
\* the default mutation and both colours: on the 3-node path for one parent
\* and for larger pools without aging or crossover, and on the 2-node path
\* for larger pools with one of them; a custom creation with at most two
\* parents.
Explored(ps, ma, xo, cm, cc, gs, tl) ==
    \/ ps <= 1 /\ ma = NoAge /\ ~xo
    \/ /\ ~cm /\ gs = Colors
       /\ \/ ps = 1 /\ tl = 3 /\ ~cc /\ (xo => ma # 5)
          \/ ps >= 2 /\ tl = 3 /\ (cc => ps = 2) /\ ma = NoAge /\ ~xo
          \/ ps >= 2 /\ tl = 2 /\ (cc => ps = 2) /\ ma # 5 /\ (xo => ma = NoAge)

Create == "Create"
Mutate == "Mutate"
Crossover == "Crossover"
Strategies == {Create, Mutate, Crossover}

VARIABLES
    \* arguments of get_best
    poolSize, maxAge, crossover, custom_mutate, custom_create, geneSet,
    targetLen, optimalFitness,
    \* locals of get_best
    usedStrategies, displayed, returned,
    \* locals of _get_improvement
    heap, bestParent, parents, historicalFitnesses, seedIter, pindex,
    parent, child, chosen,
    \* control: position of the generator / of get_best
    pc,
    \* observations: what the generator has yielded, the consecutive worse
    \* attempts per slot, and a plain hill-climber fed the same children
    yielded, streak, climber

cfgVars == <<poolSize, maxAge, crossover, custom_mutate, custom_create,
             geneSet, targetLen, optimalFitness>>
vars == <<poolSize, maxAge, crossover, custom_mutate, custom_create, geneSet,
          targetLen, optimalFitness, usedStrategies, displayed, returned,
          heap, bestParent, parents, historicalFitnesses, seedIter, pindex,
          parent, child, chosen, pc, yielded, streak, climber>>

\* ------------------------------------------------------------- helpers
Range(s) == {s[i] : i \in DOMAIN s}
Min(a, b) == IF a < b THEN a ELSE b

\* Python list indexing, 0-based, negative indices counted from the end
InRange(s, i) == i >= 0 - Len(s) /\ i < Len(s)
Pos(s, i) == IF i < 0 THEN i + Len(s) + 1 ELSE i + 1

\* class Chromosome
Chromosome(genes, fitness, strategy) ==
    [Genes |-> genes, Fitness |-> fitness, Strategy |-> strategy, Age |-> 0]

\* graphColoringTests.get_fitness on the path graph over the nodes
\* 1..Len(genes): one Rule per edge (i, i+1), valid when the colours differ
get_fitness(genes) ==
    Cardinality({i \in 1 .. (Len(genes) - 1) : genes[i] # genes[i + 1]})

\* len(rules) for that graph
get_fitness_max(n) == IF n > 0 THEN n - 1 ELSE 0

\* random.sample(population, k): k distinct elements in some order
sample(population, k) ==
    {s \in [1 .. k -> population] : \A i, j \in 1 .. k : i # j => s[i] # s[j]}

\* ------------------------------------------------- reproduction operators
\* the while loop of _generate_parent, entered with `genes` collected so far
RECURSIVE GenerateGenes(_, _, _)
GenerateGenes(genes, length, gs) ==
    IF Len(genes) >= length THEN {genes}
    ELSE LET sampleSize == Min(length - Len(genes), Cardinality(gs))
         IN  UNION {GenerateGenes(genes \o b, length, gs) : b \in sample(gs, sampleSize)}

\* with an empty gene set every batch is empty and the loop never exits
GenerateHangs(length, gs) == length > 0 /\ gs = {}

_generate_parent(length, gs) ==
    {Chromosome(g, get_fitness(g), Create) : g \in GenerateGenes(<<>>, length, gs)}

\* custom_create is a caller's callback: any genome of the run's length
CustomCreateGenes == [1 .. targetLen -> geneSet]

fnGenerateParent ==
    IF custom_create
    THEN {Chromosome(g, get_fitness(g), Create) : g \in CustomCreateGenes}
    ELSE _generate_parent(targetLen, geneSet)

fnGenerateParentHangs == ~custom_create /\ GenerateHangs(targetLen, geneSet)

\* _mutate: randrange(0, 0) and sample(geneSet, 2) raise ValueError
MutateRaises(p, gs) == Len(p.Genes) = 0 \/ Cardinality(gs) < 2

_mutate(p, gs) ==
    {LET g == [p.Genes EXCEPT ![index] =
                   IF pair[1] = p.Genes[index] THEN pair[2] ELSE pair[1]]
     IN  Chromosome(g, get_fitness(g), Mutate) :
        index \in 1 .. Len(p.Genes), pair \in sample(gs, 2)}

\* graphColoringTests.mutate: `count` more assignments of a random gene
RECURSIVE MutateGenes(_, _, _)
MutateGenes(genes, gs, count) ==
    IF count = 0 THEN {genes}
    ELSE UNION {MutateGenes([genes EXCEPT ![indexA] = newGene], gs, count - 1) :
                    indexA \in 1 .. Len(genes), newGene \in gs}

mutate(genes, gs) == UNION {MutateGenes(genes, gs, count) : count \in 1 .. 4}

\* both randrange calls of graphColoringTests.mutate raise on an empty range
CustomMutateRaises(p, gs) == Len(p.Genes) = 0 \/ gs = {}

_mutate_custom(p, gs) ==
    {Chromosome(g, get_fitness(g), Mutate) : g \in mutate(p.Genes, gs)}

fnMutate(p) == IF custom_mutate THEN _mutate_custom(p, geneSet) ELSE _mutate(p, geneSet)

fnMutateRaises(p) ==
    IF custom_mutate THEN CustomMutateRaises(p, geneSet) ELSE MutateRaises(p, geneSet)

\* the caller's crossover function: each gene from the parent or the donor
\* (that it may also answer None is a choice made where it is called)
CrossoverGenes(parentGenes, donorGenes) ==
    {g \in [1 .. Len(parentGenes) -> Range(parentGenes) \cup Range(donorGenes)] :
        \A i \in 1 .. Len(parentGenes) : g[i] \in {parentGenes[i], donorGenes[i]}}

\* --------------------------------------------------------------- the heap
\* References are indices into heap; 0 is an unbound name.  After every step
\* the objects still referenced are renumbered in the order bestParent,
\* parents[0..], parent, child, and the others are dropped.
Roots(b, ps, p, c) == <<b>> \o ps \o <<p, c>>

Firsts(roots) ==
    {i \in DOMAIN roots : roots[i] # 0 /\ \A j \in 1 .. (i - 1) : roots[j] # roots[i]}

Order(roots) ==
    LET keep == Firsts(roots)
    IN  [k \in 1 .. Cardinality(keep) |->
            roots[CHOOSE i \in keep : Cardinality({j \in keep : j < i}) = k - 1]]

NewId(order, old) == IF old = 0 THEN 0 ELSE CHOOSE k \in DOMAIN order : order[k] = old

Store(h, b, ps, p, c) ==
    LET order == Order(Roots(b, ps, p, c))
    IN  /\ heap' = [k \in DOMAIN order |-> h[order[k]]]
        /\ bestParent' = NewId(order, b)
        /\ parents' = [i \in DOMAIN ps |-> NewId(order, ps[i])]
        /\ parent' = NewId(order, p)
        /\ child' = NewId(order, c)

\* what a yield hands to get_best, and what display shows of it
Snapshot(c) == [Fitness |-> c.Fitness, Strategy |-> c.Strategy]

NoChoice == [op |-> "None", donorIndex |-> -1, sentinel |-> FALSE]
Choice(op, donorIndex, sentinel) ==
    [op |-> op, donorIndex |-> donorIndex, sentinel |-> sentinel]

\* ------------------------------------------------ producing a child (heap)
\* the result of one call of new_child: how it ended, the heap and the pool it
\* leaves, the child it returns and what was chosen on the way
Outcome(kind, h, ps, c, ch) ==
    [kind |-> kind, heap |-> h, parents |-> ps, child |-> c, chosen |-> ch]

MutateOutcomes(h, ps, pid, ch) ==
    IF fnMutateRaises(h[pid])
    THEN {Outcome("ValueError", h, ps, 0, ch)}
    ELSE {Outcome("ok", Append(h, c), ps, Len(h) + 1, ch) : c \in fnMutate(h[pid])}

CreateOutcomes(h, ps, ch) ==
    {Outcome("ok", Append(h, c), ps, Len(h) + 1, ch) : c \in fnGenerateParent}

\* lines 62-64 without lines 63-64
DonorIndexAsDrawn(d, index, n) == d

\* lines 62-64, d being the value of random.randrange(0, n)
DonorIndex(d, index, n) == IF d = index THEN (d + 1) % n ELSE d

\* _crossover(p.Genes, i, o, ...): d is the value of random.randrange
_crossover(h, ps, pid, index) ==
    UNION {
        LET donorIndex == DonorIndex(d, index, Len(ps))
            donorGenes == h[ps[donorIndex + 1]].Genes
            refreshed == [ps EXCEPT ![donorIndex + 1] = Len(h) + 1]
        IN  \* childGenes is None: parents[donorIndex] = generate_parent();
            \* return mutate(parents[index])
            UNION {MutateOutcomes(Append(h, g), refreshed,
                                  refreshed[Pos(ps, index)],
                                  Choice(Crossover, donorIndex, TRUE)) :
                       g \in fnGenerateParent}
            \cup
            {Outcome("ok", Append(h, Chromosome(cg, get_fitness(cg), Crossover)),
                     ps, Len(h) + 1, Choice(Crossover, donorIndex, FALSE)) :
                 cg \in CrossoverGenes(h[pid].Genes, donorGenes)}
        : d \in 0 .. (Len(ps) - 1)}

strategyLookup(s, h, ps, pid, index) ==
    CASE s = Create -> CreateOutcomes(h, ps, Choice(Create, -1, FALSE))
      [] s = Mutate -> MutateOutcomes(h, ps, pid, Choice(Mutate, -1, FALSE))
      [] s = Crossover -> _crossover(h, ps, pid, index)

\* random.choice(usedStrategies) when a crossover function was given
fnNewChild(h, ps, pid, index) ==
    IF crossover
    THEN UNION {strategyLookup(s, h, ps, pid, index) : s \in Range(usedStrategies)}
    ELSE MutateOutcomes(h, ps, pid, Choice(Mutate, -1, FALSE))

\* ------------------------------------------------------ acceptance policy
\* bisect.bisect_left(a, x, lo, hi), indices 0-based as in the code
RECURSIVE bisect_left(_, _, _, _)
bisect_left(a, x, lo, hi) ==
    IF lo < hi
    THEN LET mid == (lo + hi) \div 2
         IN  IF a[mid + 1] < x THEN bisect_left(a, x, mid + 1, hi)
                               ELSE bisect_left(a, x, lo, mid)
    ELSE lo

\* len(historicalFitnesses) - index, the numerator of proportionSimilar
difference(hist, fitness) == Len(hist) - bisect_left(hist, fitness, 0, Len(hist))

\* random.random() < exp(-proportionSimilar), with proportionSimilar = d / n.
\* Draw j of 0..DrawScale stands for a value r of random.random() with
\* -ln(r) just above j / DrawScale, so that r < exp(-d/n) iff d/n <= j/DrawScale
\* (j = 0: r close to 1; j = DrawScale: r < 1/e).
Keeps(j, d, n) == DrawScale * d <= j * n

lastParentIndex == poolSize - 1

AgeLimit == IF maxAge = NoAge THEN AgeCap ELSE maxAge + AgeCap

Slot == Pos(parents, pindex)

Improvement == IF pc = "y157" THEN parent ELSE bestParent

\* ------------------------------------------------------------ observations
Reduction == poolSize = 1 /\ maxAge = NoAge /\ ~crossover

NoClimber == [Genes |-> <<>>, Fitness |-> -1, yielded |-> <<>>]

\* plain hill climbing offered the child c: keep it when it is not worse,
\* yield it when it is strictly better
HillClimb(cl, c) ==
    IF c.Fitness > cl.Fitness
    THEN [Genes |-> c.Genes, Fitness |-> c.Fitness,
          yielded |-> Append(cl.yielded, Snapshot(c))]
    ELSE IF c.Fitness = cl.Fitness
         THEN [cl EXCEPT !.Genes = c.Genes]
         ELSE cl

Climb(c) == climber' = IF Reduction THEN HillClimb(climber, c) ELSE climber

\* streak[s]: the consecutive attempts with a worse child made on slot s since
\* its occupant was installed with Age 0; -1 once the occupant entered with
\* another Age or had its Age changed through another reference
SetStreak(f) == streak' = IF maxAge = NoAge THEN streak ELSE f

Installed(s, age) == [streak EXCEPT ![s] = IF age = 0 THEN 0 ELSE -1]

\* the Age of object x was changed while slot s was being processed
Touched(st, ps, x, s) ==
    [i \in DOMAIN st |->
        IF ps[i] # x THEN st[i]
        ELSE IF i = s /\ st[i] >= 0 THEN st[i] + 1 ELSE -1]

\* one more configuration, explored with the optimum the test asks for: two
\* parents of three genes and a crossover function
ExploredToOptimum(ps, ma, xo, cm, cc, gs, tl, of) ==
    /\ ps = 2 /\ tl = 3 /\ gs = Colors
    /\ ma = NoAge /\ xo /\ ~cm /\ ~cc
    /\ of = get_fitness_max(tl)

\* ------------------------------------------------------------------ Init
\* get_best has been called: its closures and usedStrategies are built
\* (lines 95-126), the generator exists and has not run yet
Init ==
    /\ poolSize \in PoolSizes
    /\ maxAge \in MaxAges
    /\ crossover \in BOOLEAN
    /\ custom_mutate \in BOOLEAN
    /\ custom_create \in BOOLEAN
    /\ geneSet \in GeneSets
    /\ targetLen \in TargetLens
    \* the test asks for every rule to pass (optimalValue = len(rules));
    \* one more than that can never be reached
    /\ optimalFitness \in {get_fitness_max(targetLen), get_fitness_max(targetLen) + 1}
    /\ \/ Explored(poolSize, maxAge, crossover, custom_mutate, custom_create,
                   geneSet, targetLen)
       \/ ExploredToOptimum(poolSize, maxAge, crossover, custom_mutate,
                            custom_create, geneSet, targetLen, optimalFitness)
    /\ usedStrategies = IF crossover THEN <<Mutate, Crossover>> ELSE <<Mutate>>
    /\ displayed = <<>>
    /\ returned = <<>>
    /\ heap = <<>>
    /\ bestParent = 0
    /\ parents = <<>>
    /\ historicalFitnesses = <<>>
    /\ seedIter = 0
    /\ pindex = 1
    /\ parent = 0
    /\ child = 0
    /\ chosen = NoChoice
    /\ pc = "call"
    /\ yielded = <<>>
    /\ streak = <<>>
    /\ climber = NoClimber

\* --------------------------------------------------- get_best, lines 128-134
UnchangedByDisplay ==
    UNCHANGED <<cfgVars, seedIter, heap, bestParent, parents,
                historicalFitnesses, pindex, parent, child, chosen, yielded,
                streak, climber>>

\* Display with the test of line 133 made before line 130
DisplayAfterCheck ==
    /\ pc \in {"y151", "y157", "y192"}
    /\ LET improvement == heap[Improvement]
       IN  IF ~(optimalFitness > improvement.Fitness)
           THEN /\ returned' = <<improvement>>
                /\ pc' = "returned"
                /\ UNCHANGED <<displayed, usedStrategies>>
           ELSE /\ displayed' = Append(displayed, Snapshot(improvement))
                /\ usedStrategies' = Append(usedStrategies, improvement.Strategy)
                /\ returned' = returned
                /\ pc' = CASE pc = "y151" -> "r151"
                           [] pc = "y157" -> "r157"
                           [] pc = "y192" -> "r192"
    /\ UnchangedByDisplay

\* Display without lines 131-132
DisplayNoAppend ==
    /\ pc \in {"y151", "y157", "y192"}
    /\ LET improvement == heap[Improvement]
       IN  /\ displayed' = Append(displayed, Snapshot(improvement))
           /\ IF ~(optimalFitness > improvement.Fitness)
              THEN /\ returned' = <<improvement>>
                   /\ pc' = "returned"
              ELSE /\ returned' = returned
                   /\ pc' = CASE pc = "y151" -> "r151"
                              [] pc = "y157" -> "r157"
                              [] pc = "y192" -> "r192"
    /\ UNCHANGED usedStrategies
    /\ UnchangedByDisplay

\* lines 130-134 with line 133 as: if improvement.Fitness > optimalFitness
DisplayStrictOptimum ==
    /\ pc \in {"y151", "y157", "y192"}
    /\ LET improvement == heap[Improvement]
       IN  /\ displayed' = Append(displayed, Snapshot(improvement))
           /\ usedStrategies' = Append(usedStrategies, improvement.Strategy)
           /\ IF improvement.Fitness > optimalFitness
              THEN /\ returned' = <<improvement>>
                   /\ pc' = "returned"
              ELSE /\ returned' = returned
                   /\ pc' = CASE pc = "y151" -> "r151"
                              [] pc = "y157" -> "r157"
                              [] pc = "y192" -> "r192"
    /\ UNCHANGED <<cfgVars, seedIter, heap, bestParent, parents, historicalFitnesses,
                   pindex, parent, child, chosen, yielded, streak, climber>>

\* the body of the for loop on the improvement just yielded
Display ==
    /\ pc \in {"y151", "y157", "y192"}
    /\ LET improvement == heap[Improvement]
       IN  /\ displayed' = Append(displayed, Snapshot(improvement))
           /\ usedStrategies' = Append(usedStrategies, improvement.Strategy)
           /\ IF ~(optimalFitness > improvement.Fitness)
              THEN /\ returned' = <<improvement>>
                   /\ pc' = "returned"
              ELSE /\ returned' = returned
                   /\ pc' = CASE pc = "y151" -> "r151"
                              [] pc = "y157" -> "r157"
                              [] pc = "y192" -> "r192"
    /\ UNCHANGED <<cfgVars, seedIter, heap, bestParent, parents, historicalFitnesses,
                   pindex, parent, child, chosen, yielded, streak, climber>>

\* ------------------------------------------- _get_improvement, lines 150-162
\* lines 150-151: the first parent is yielded unconditionally
Start ==
    /\ pc = "call"
    /\ ~fnGenerateParentHangs
    /\ \E c \in fnGenerateParent :
        /\ Store(<<c>>, 1, <<>>, 0, 0)
        /\ yielded' = <<Snapshot(c)>>
        /\ climber' = IF Reduction
                      THEN [Genes |-> c.Genes, Fitness |-> c.Fitness,
                            yielded |-> <<Snapshot(c)>>]
                      ELSE climber
    /\ pc' = "y151"
    /\ UNCHANGED <<cfgVars, seedIter, usedStrategies, displayed, returned,
                   historicalFitnesses, pindex, chosen, streak>>

\* line 150 with the default Create and an empty gene set: the loop of
\* _generate_parent never ends
StartHangs ==
    /\ pc = "call"
    /\ fnGenerateParentHangs
    /\ pc' = "hang"
    /\ UNCHANGED <<cfgVars, seedIter, usedStrategies, displayed, returned, heap,
                   bestParent, parents, historicalFitnesses, pindex, parent,
                   child, chosen, yielded, streak, climber>>

\* lines 152-153
Resume151 ==
    /\ pc = "r151"
    /\ Store(heap, bestParent, <<bestParent>>, 0, 0)
    /\ historicalFitnesses' = <<heap[bestParent].Fitness>>
    /\ pc' = "seed"
    /\ UNCHANGED <<cfgVars, seedIter, usedStrategies, displayed, returned, pindex,
                   chosen, yielded, streak, climber>>

\* line 156: parent.Fitness > bestParent.Fitness
SeedAtLeastBest(c) == c.Fitness >= heap[bestParent].Fitness

SeedBeatsBest(c) == c.Fitness > heap[bestParent].Fitness

\* lines 154-157, seedIter being the number of values taken from
\* range(poolSize - 1): a seeded parent that beats bestParent is yielded
SeedYield ==
    /\ pc = "seed"
    /\ seedIter < poolSize - 1
    /\ seedIter' = seedIter + 1
    /\ \E c \in fnGenerateParent :
        /\ SeedBeatsBest(c)
        /\ Store(Append(heap, c), bestParent, parents, Len(heap) + 1, 0)
        /\ yielded' = Append(yielded, Snapshot(c))
    /\ pc' = "y157"
    /\ UNCHANGED <<cfgVars, usedStrategies, displayed, returned,
                   historicalFitnesses, pindex, chosen, streak, climber>>

\* lines 154-156, 160: a seeded parent that does not is only added to the pool
SeedAppend ==
    /\ pc = "seed"
    /\ seedIter < poolSize - 1
    /\ seedIter' = seedIter + 1
    /\ \E c \in fnGenerateParent :
        /\ ~SeedBeatsBest(c)
        /\ Store(Append(heap, c), bestParent, Append(parents, Len(heap) + 1), 0, 0)
    /\ UNCHANGED <<cfgVars, usedStrategies, displayed, returned,
                   historicalFitnesses, pindex, chosen, pc, yielded, streak,
                   climber>>

\* Resume157 with line 160 in an else branch of line 156
Resume157NoAppend ==
    /\ pc = "r157"
    /\ Store(heap, parent, parents, 0, 0)
    /\ historicalFitnesses' = Append(historicalFitnesses, heap[parent].Fitness)
    /\ pc' = "seed"
    /\ UNCHANGED <<cfgVars, seedIter, usedStrategies, displayed, returned,
                   pindex, chosen, yielded, streak, climber>>

\* lines 158-160
Resume157 ==
    /\ pc = "r157"
    /\ Store(heap, parent, Append(parents, parent), 0, 0)
    /\ historicalFitnesses' = Append(historicalFitnesses, heap[parent].Fitness)
    /\ pc' = "seed"
    /\ UNCHANGED <<cfgVars, seedIter, usedStrategies, displayed, returned, pindex,
                   chosen, yielded, streak, climber>>

\* lines 161-162: range(poolSize - 1) is exhausted
SeedDone ==
    /\ pc = "seed"
    /\ ~(seedIter < poolSize - 1)
    /\ pindex' = 1
    /\ streak' = [i \in DOMAIN parents |-> 0]
    /\ pc' = "loop"
    /\ UNCHANGED <<cfgVars, seedIter, usedStrategies, displayed, returned, heap,
                   bestParent, parents, historicalFitnesses, parent, child,
                   chosen, yielded, climber>>

\* ------------------------------------------- _get_improvement, lines 163-193
\* line 164 as: pindex = pindex - 1
NextIndexNoWrap == pindex - 1

\* line 164
NextIndex == IF pindex > 0 THEN pindex - 1 ELSE lastParentIndex

\* lines 164-165: parents[pindex] with an index outside the list
NewChildIndexError ==
    /\ pc = "loop"
    /\ ~InRange(parents, NextIndex)
    /\ pindex' = NextIndex
    /\ pc' = "IndexError"
    /\ UNCHANGED <<cfgVars, seedIter, usedStrategies, displayed, returned, heap,
                   bestParent, parents, historicalFitnesses, parent, child,
                   chosen, yielded, streak, climber>>

\* lines 164-166, new_child raising ValueError (randrange on an empty range,
\* sample of two from fewer than two genes)
NewChildValueError ==
    /\ pc = "loop"
    /\ InRange(parents, NextIndex)
    /\ \E o \in fnNewChild(heap, parents, parents[Pos(parents, NextIndex)], NextIndex) :
        /\ o.kind = "ValueError"
        /\ Store(o.heap, bestParent, o.parents, parents[Pos(parents, NextIndex)], 0)
        /\ chosen' = o.chosen
    /\ pindex' = NextIndex
    /\ pc' = "ValueError"
    /\ UNCHANGED <<cfgVars, seedIter, usedStrategies, displayed, returned,
                   historicalFitnesses, yielded, streak, climber>>

\* lines 164-166: the cursor moves, parent is read and a child is produced
NewChild ==
    /\ pc = "loop"
    /\ InRange(parents, NextIndex)
    /\ \E o \in fnNewChild(heap, parents, parents[Pos(parents, NextIndex)], NextIndex) :
        /\ o.kind = "ok"
        /\ Store(o.heap, bestParent, o.parents, parents[Pos(parents, NextIndex)], o.child)
        /\ chosen' = o.chosen
        /\ SetStreak(IF o.chosen.sentinel
                     THEN [streak EXCEPT ![o.chosen.donorIndex + 1] = 0]
                     ELSE streak)
    /\ pindex' = NextIndex
    /\ pc' = "accept"
    /\ UNCHANGED <<cfgVars, seedIter, usedStrategies, displayed, returned,
                   historicalFitnesses, yielded, climber>>

\* the iteration is over (continue, or the end of the loop body): parent,
\* child and the choice made are dead until line 165 assigns them again
EndIteration(h, b, ps) ==
    /\ Store(h, b, ps, 0, 0)
    /\ chosen' = NoChoice

Worse == heap[parent].Fitness > heap[child].Fitness
Same == ~Worse /\ ~(heap[child].Fitness > heap[parent].Fitness)
Better == heap[child].Fitness > heap[parent].Fitness

\* line 190: child.Fitness > bestParent.Fitness
ChildAtLeastBest == heap[child].Fitness >= heap[bestParent].Fitness

ChildBeatsBest == heap[child].Fitness > heap[bestParent].Fitness

Aged(h, x) == [h EXCEPT ![x].Age = @ + 1]
Reset(h, x) == [h EXCEPT ![x].Age = 0]
Put(ps, i, x) == [ps EXCEPT ![Pos(ps, i)] = x]

\* line 171, after line 170 has aged the parent: maxAge > parent.Age
YoungOrAtMaxAge == maxAge >= heap[parent].Age + 1

StillYoung == maxAge > heap[parent].Age + 1

\* lines 167-169
RejectNoAge ==
    /\ pc = "accept"
    /\ Worse
    /\ maxAge = NoAge
    /\ EndIteration(heap, bestParent, parents)
    /\ Climb(heap[child])
    /\ pc' = "loop"
    /\ UNCHANGED <<cfgVars, seedIter, usedStrategies, displayed, returned,
                   historicalFitnesses, pindex, yielded, streak>>

\* lines 167-172: the parent ages and is still below maxAge
RejectYoung ==
    /\ pc = "accept"
    /\ Worse
    /\ maxAge # NoAge
    /\ StillYoung
    /\ EndIteration(Aged(heap, parent), bestParent, parents)
    /\ SetStreak(Touched(streak, parents, parent, Slot))
    /\ pc' = "loop"
    /\ UNCHANGED <<cfgVars, seedIter, usedStrategies, displayed, returned,
                   historicalFitnesses, pindex, yielded, climber>>

\* lines 167-171: the parent ages and has reached maxAge
EnterAnneal ==
    /\ pc = "accept"
    /\ Worse
    /\ maxAge # NoAge
    /\ ~StillYoung
    /\ Store(Aged(heap, parent), bestParent, parents, parent, child)
    /\ SetStreak(Touched(streak, parents, parent, Slot))
    /\ pc' = "anneal"
    /\ UNCHANGED <<cfgVars, seedIter, usedStrategies, displayed, returned,
                   historicalFitnesses, pindex, chosen, yielded, climber>>

\* lines 173-179: the draw keeps the child
AnnealKeepChild ==
    /\ pc = "anneal"
    /\ \E j \in 0 .. DrawScale :
        Keeps(j, difference(historicalFitnesses, heap[child].Fitness),
              Len(historicalFitnesses))
    /\ EndIteration(heap, bestParent, Put(parents, pindex, child))
    /\ SetStreak(Installed(Slot, heap[child].Age))
    /\ pc' = "loop"
    /\ UNCHANGED <<cfgVars, seedIter, usedStrategies, displayed, returned,
                   historicalFitnesses, pindex, yielded, climber>>

\* AnnealRestoreBest without line 180
AnnealRestoreBestNoReset ==
    /\ pc = "anneal"
    /\ \E j \in 0 .. DrawScale :
        ~Keeps(j, difference(historicalFitnesses, heap[child].Fitness),
               Len(historicalFitnesses))
    /\ EndIteration(heap, bestParent, Put(parents, pindex, bestParent))
    /\ SetStreak([Touched(streak, parents, bestParent, 0) EXCEPT ![Slot] = 0])
    /\ pc' = "loop"
    /\ UNCHANGED <<cfgVars, seedIter, usedStrategies, displayed, returned,
                   historicalFitnesses, pindex, yielded, climber>>

\* lines 173-177, 180-182: the draw does not: bestParent takes the slot
AnnealRestoreBest ==
    /\ pc = "anneal"
    /\ \E j \in 0 .. DrawScale :
        ~Keeps(j, difference(historicalFitnesses, heap[child].Fitness),
               Len(historicalFitnesses))
    /\ EndIteration(Reset(heap, bestParent), bestParent,
                    Put(parents, pindex, bestParent))
    /\ SetStreak([Touched(streak, parents, bestParent, 0) EXCEPT ![Slot] = 0])
    /\ pc' = "loop"
    /\ UNCHANGED <<cfgVars, seedIter, usedStrategies, displayed, returned,
                   historicalFitnesses, pindex, yielded, climber>>

\* Lateral with line 183 treating the same fitness as a rejection
LateralKeepsParent ==
    /\ pc = "accept"
    /\ Same
    /\ EndIteration(heap, bestParent, parents)
    /\ Climb(heap[child])
    /\ pc' = "loop"
    /\ UNCHANGED <<cfgVars, seedIter, usedStrategies, displayed, returned,
                   historicalFitnesses, pindex, yielded, streak>>

\* lines 183-187: same fitness
Lateral ==
    /\ pc = "accept"
    /\ Same
    /\ heap[parent].Age < AgeLimit
    /\ LET h == [heap EXCEPT ![child].Age = heap[parent].Age + 1]
       IN  /\ EndIteration(h, bestParent, Put(parents, pindex, child))
           /\ SetStreak(Installed(Slot, h[child].Age))
    /\ Climb(heap[child])
    /\ pc' = "loop"
    /\ UNCHANGED <<cfgVars, seedIter, usedStrategies, displayed, returned,
                   historicalFitnesses, pindex, yielded>>

\* lines 188-190: better than the parent, not better than bestParent
BetterThanParent ==
    /\ pc = "accept"
    /\ Better
    /\ ~ChildBeatsBest
    /\ EndIteration(Reset(heap, child), bestParent, Put(parents, pindex, child))
    /\ SetStreak(Installed(Slot, 0))
    /\ Climb(heap[child])
    /\ pc' = "loop"
    /\ UNCHANGED <<cfgVars, seedIter, usedStrategies, displayed, returned,
                   historicalFitnesses, pindex, yielded>>

\* lines 188-192: a new best is yielded
Improve ==
    /\ pc = "accept"
    /\ Better
    /\ ChildBeatsBest
    /\ EndIteration(Reset(heap, child), child, Put(parents, pindex, child))
    /\ SetStreak(Installed(Slot, 0))
    /\ yielded' = Append(yielded, Snapshot(heap[child]))
    /\ Climb(heap[child])
    /\ pc' = "y192"
    /\ UNCHANGED <<cfgVars, seedIter, usedStrategies, displayed, returned,
                   historicalFitnesses, pindex>>

\* the generator resumed after line 192, without line 193
Resume192NoAppend ==
    /\ pc = "r192"
    /\ historicalFitnesses' = historicalFitnesses
    /\ pc' = "loop"
    /\ UNCHANGED <<cfgVars, seedIter, usedStrategies, displayed, returned, heap,
                   bestParent, parents, pindex, parent, child, chosen, yielded,
                   streak, climber>>

\* line 193
Resume192 ==
    /\ pc = "r192"
    /\ historicalFitnesses' = Append(historicalFitnesses, heap[bestParent].Fitness)
    /\ pc' = "loop"
    /\ UNCHANGED <<cfgVars, seedIter, usedStrategies, displayed, returned, heap,
                   bestParent, parents, pindex, parent, child, chosen, yielded,
                   streak, climber>>

Next ==
    \/ Start
    \/ StartHangs
    \/ Display
    \/ Resume151
    \/ SeedYield
    \/ SeedAppend
    \/ Resume157
    \/ SeedDone
    \/ NewChildIndexError
    \/ NewChildValueError
    \/ NewChild
    \/ RejectNoAge
    \/ RejectYoung
    \/ EnterAnneal
    \/ AnnealKeepChild
    \/ AnnealRestoreBest
    \/ Lateral
    \/ BetterThanParent
    \/ Improve
    \/ Resume192

Spec == Init /\ [][Next]_vars

\* ------------------------------------------ the path graph run on its own
\* graphColoringTests.color on the path a - b - c with two colours: every
\* rule is asked to pass, and get_best runs with its defaults (one parent,
\* no maxAge, no crossover)
InitScenarioB ==
    /\ Init
    /\ poolSize = 1
    /\ maxAge = NoAge
    /\ ~crossover
    /\ geneSet = Colors
    /\ targetLen = 3
    /\ optimalFitness = get_fitness_max(targetLen)

\* the steps such a run can take
NextScenarioB ==
    \/ Start
    \/ Display
    \/ Resume151
    \/ SeedDone
    \/ NewChild
    \/ RejectNoAge
    \/ Lateral
    \/ Improve
    \/ Resume192

\* line 166 returning a child that beats the best so far
NewChildImproves ==
    /\ NewChild
    /\ heap'[child'].Fitness > heap'[bestParent'].Fitness

\* The run does not stop while it can take a step. Every draw of the random
\* module has a positive probability, so a child that is possible again and
\* again is returned at some time, with probability 1.
FairScenarioB ==
    /\ WF_vars(NextScenarioB)
    /\ SF_vars(NewChildImproves)

SpecScenarioB == InitScenarioB /\ [][NextScenarioB]_vars /\ FairScenarioB

\* ------------------------------------------------------------- sanity
TypeOK ==
    /\ pc \in {"call", "hang", "y151", "r151", "seed", "y157", "r157", "loop",
               "accept", "anneal", "y192", "r192", "returned", "IndexError",
               "ValueError"}
    /\ bestParent \in 0 .. Len(heap)
    /\ \A i \in DOMAIN parents : parents[i] \in 1 .. Len(heap)
    /\ parent \in 0 .. Len(heap)
    /\ child \in 0 .. Len(heap)

\* the streak of a slot, while it counts, is the Age of its occupant
StreakIsAge ==
    (maxAge # NoAge /\ pc = "loop") =>
        \A i \in DOMAIN parents : streak[i] >= 0 => heap[parents[i]].Age = streak[i]

\* ------------------------------------------------------------- the claims
InMainLoop == pc \in {"loop", "accept", "anneal", "y192", "r192"}

StrictlyAscending(fs) == \A i, j \in DOMAIN fs : i < j => fs[i] < fs[j]

Fitnesses(snaps) == [i \in DOMAIN snaps |-> snaps[i].Fitness]
Tags(snaps) == [i \in DOMAIN snaps |-> snaps[i].Strategy]

\* C1: every Candidate yielded after the first has a fitness strictly greater
\* than every Candidate yielded before it, in seeding and in the main loop.
C1_YieldsStrictlyIncrease == StrictlyAscending(Fitnesses(yielded))

\* three improvements, the last one out of the main loop
C1_Witness == pc = "y192" /\ Len(yielded) = 3

\* C2: when get_best returns, the returned Candidate is not below
\* optimalFitness, it is the last one yielded and the only one yielded that is
\* not below optimalFitness, and display has been called on exactly the yielded
\* Candidates, once each, in yield order.
C2_ReturnsFirstOptimal ==
    pc = "returned" =>
        /\ ~(optimalFitness > returned[1].Fitness)
        /\ Snapshot(returned[1]) = yielded[Len(yielded)]
        /\ \A i \in 1 .. (Len(yielded) - 1) : optimalFitness > yielded[i].Fitness
        /\ displayed = yielded

C2_Witness == pc = "returned" /\ Len(displayed) = 3

\* C3: once historicalFitnesses exists (from line 153 on, when parents exists
\* too) it is never empty and it is strictly ascending.
C3_LedgerAscending ==
    parents # <<>> =>
        /\ historicalFitnesses # <<>>
        /\ StrictlyAscending(historicalFitnesses)

\* a ledger that grew in seeding and in the main loop
C3_Witness == pc = "loop" /\ poolSize = 2 /\ Len(historicalFitnesses) = 3

C5_NoSlotSharesACandidate ==
    \A i, j \in DOMAIN parents : i # j => parents[i] # parents[j]

\* C6: with one parent, no maximum age and no crossover, the slot holds what
\* plain hill climbing holds after the same children, and the same Candidates
\* have been yielded.
C6_IsHillClimbing ==
    Reduction =>
        /\ yielded = climber.yielded
        /\ parents # <<>> =>
               /\ heap[parents[1]].Genes = climber.Genes
               /\ heap[parents[1]].Fitness = climber.Fitness

\* after a lateral move and an improvement
C6_Witness ==
    /\ Reduction
    /\ pc = "loop"
    /\ Len(climber.yielded) = 2
    /\ heap[parents[1]].Age > 0

\* C7: for poolSize >= 1 the pool holds exactly poolSize Candidates once
\* seeding is over and in every main-loop iteration after that.
C7_PoolKeepsItsSize == (poolSize >= 1 /\ InMainLoop) => Len(parents) = poolSize

\* a pool seeded with a yield, after a crossover fallback refreshed a donor
C7_Witness ==
    /\ pc = "accept"
    /\ poolSize = 2
    /\ chosen.sentinel
    /\ Len(yielded) >= 2

\* C8 as claimed: with poolSize < 1 no Candidate is created, yielded or
\* displayed and no main-loop iteration runs.
C8_SmallPoolRejected ==
    poolSize < 1 =>
        /\ heap = <<>>
        /\ yielded = <<>>
        /\ displayed = <<>>
        /\ ~InMainLoop

\* C9 as claimed: with the default Mutate and fewer than 2 genes in geneSet
\* the run ends in an error before any Candidate is yielded or displayed.
C9_SmallGeneSetRejected ==
    (~custom_mutate /\ Cardinality(geneSet) < 2 /\ pc = "ValueError") =>
        /\ yielded = <<>>
        /\ displayed = <<>>

\* an attempt with a worse child on a slot whose occupant entered with Age 0
\* and has only been aged by the attempts on this slot: streak[Slot] of them
ScenarioC ==
    /\ maxAge = 5
    /\ pc = "accept"
    /\ Worse
    /\ parents[Slot] = parent
    /\ streak[Slot] >= 0

\* C10 as claimed: of the consecutive attempts with a worse child, the 6th is
\* the one that enters the annealing branch.
C10_SixthAttemptAnneals ==
    [][ScenarioC => ((pc' = "anneal") <=> (streak[Slot] + 1 = 6))]_vars

\* C10 as amended: the 5th is.
C10_FifthAttemptAnneals ==
    [][ScenarioC => ((pc' = "anneal") <=> (streak[Slot] + 1 = 5))]_vars

C10_Witness == maxAge = 5 /\ pc = "anneal" /\ streak[Slot] = 5

\* the number of positions at which two genomes of one length differ
Distance(g1, g2) == Cardinality({i \in DOMAIN g1 : g1[i] # g2[i]})

\* C11 as claimed: when the crossover function answers None, the donor's slot
\* holds a new Create Candidate, and the child is a Mutate Candidate made from
\* the parent read at line 165 (by the default mutation: one gene of it
\* changed).
C11_FallbackMutatesTheParent ==
    (pc = "accept" /\ chosen.sentinel) =>
        LET donor == parents[chosen.donorIndex + 1]
        IN  /\ heap[donor].Strategy = Create
            /\ heap[donor].Age = 0
            /\ donor # bestParent
            /\ \A i \in DOMAIN parents : i # chosen.donorIndex + 1 => parents[i] # donor
            /\ heap[child].Strategy = Mutate
            /\ ~custom_mutate => Distance(heap[child].Genes, heap[parent].Genes) = 1

\* C12: with more than one parent the donor index of a crossover is an index
\* of the pool other than the current one.
C12_DonorIsAnotherSlot ==
    (poolSize > 1 /\ pc \in {"accept", "anneal"} /\ chosen.op = Crossover) =>
        /\ chosen.donorIndex \in 0 .. (poolSize - 1)
        /\ chosen.donorIndex # pindex

\* a crossover on slot 1 whose donor is slot 0
C12_Witness ==
    /\ poolSize > 1
    /\ pc = "accept"
    /\ chosen.op = Crossover
    /\ pindex = 1
    /\ chosen.donorIndex = 0

\* every rule of the path a - b - c passes
ProperColouring(genes) == genes[1] # genes[2] /\ genes[2] # genes[3]

\* the run has reached the age AgeLimit stops at
AtAgeLimit == pc = "accept" /\ Same /\ heap[parent].Age >= AgeLimit

C14_EmptyGenomeRunsClean ==
    (/\ targetLen = 0
     /\ poolSize >= 1
     /\ Cardinality(geneSet) >= 2
     /\ ~custom_create
     /\ ~custom_mutate) =>
        /\ pc \notin {"hang", "IndexError", "ValueError"}
        /\ \A i \in DOMAIN heap :
               /\ heap[i].Genes = <<>>
               /\ heap[i].Fitness = get_fitness(<<>>)

\* the slot that follows slot i in reverse cyclic order
SlotBefore(i) == IF i = 0 THEN poolSize - 1 ELSE i - 1

SlotAfter == heap'[parents'[Pos(parents', pindex')]]

\* the step leaves bestParent (but for its age), the ledger and what has
\* been yielded as they were
BestAndLedgerKept ==
    /\ heap'[bestParent'].Genes = heap[bestParent].Genes
    /\ heap'[bestParent'].Fitness = heap[bestParent].Fitness
    /\ heap'[bestParent'].Strategy = heap[bestParent].Strategy
    /\ historicalFitnesses' = historicalFitnesses
    /\ yielded' = yielded

\* the fallback of lines 66-69 took the current slot as the donor
SelfDonor == chosen.sentinel /\ chosen.donorIndex = pindex

\* what C16 says of one step of an iteration with maxAge set
AgedOrAnnealed ==
    /\ (pc = "accept" /\ maxAge # NoAge /\ Worse) =>
           /\ parents[Slot] = parent
           /\ BestAndLedgerKept
           /\ IF heap[parent].Age + 1 < maxAge
              THEN /\ pc' = "loop"
                   /\ SlotAfter = [heap[parent] EXCEPT !.Age = @ + 1]
              ELSE /\ pc' = "anneal"
                   /\ heap'[parent'] = [heap[parent] EXCEPT !.Age = @ + 1]
    /\ (pc = "anneal") =>
           /\ BestAndLedgerKept
           /\ pc' = "loop"
           /\ SlotAfter.Age = 0
           /\ SlotAfter \in {heap[child], [heap[bestParent] EXCEPT !.Age = 0]}

\* C16 as claimed: with maxAge set, a worse child ages the parent by 1; below
\* maxAge the slot still holds the parent, otherwise it holds the child or
\* bestParent, with age 0; bestParent, the ledger and the yields are as before.
C16_WorseChildAgesTheParent == [][AgedOrAnnealed]_vars

\* what C17 says of the step that ends an iteration with no maxAge
ParentKept ==
    (pc = "accept" /\ maxAge = NoAge /\ Worse) =>
        /\ parents[Slot] = parent
        /\ SlotAfter = heap[parent]
        /\ pc' = "loop"
        /\ BestAndLedgerKept
        /\ heap'[bestParent'].Age = heap[bestParent].Age

\* C17 as claimed: with no maxAge, a worse child leaves the slot holding the
\* parent it held when the iteration began, its age as it was, and leaves
\* bestParent and the ledger as they were.
C17_WorseChildChangesNothing == [][ParentKept]_vars

\* both hold of every iteration but those whose fallback took the current
\* slot as the donor
AgedOrAnnealedButSelfDonor == [][~SelfDonor => AgedOrAnnealed]_vars
ParentKeptButSelfDonor == [][~SelfDonor => ParentKept]_vars

\* what lines 183-192 do with a child that is not worse than its parent
AcceptedStep ==
    (pc = "accept" /\ ~Worse) =>
        IF Same
        THEN /\ SlotAfter = [heap[child] EXCEPT !.Age = heap[parent].Age + 1]
             /\ BestAndLedgerKept
             /\ heap'[bestParent'].Age = heap[bestParent].Age
             /\ pc' = "loop"
        ELSE /\ SlotAfter = [heap[child] EXCEPT !.Age = 0]
             /\ IF ChildBeatsBest
                THEN /\ bestParent' = parents'[Pos(parents', pindex')]
                     /\ yielded' = Append(yielded, Snapshot(heap[child]))
                     /\ historicalFitnesses' = historicalFitnesses
                     /\ pc' = "y192"
                ELSE /\ BestAndLedgerKept
                     /\ heap'[bestParent'].Age = heap[bestParent].Age
                     /\ pc' = "loop"

\* line 193 runs when get_best asks for the next improvement, and only then
ResumedStep ==
    /\ (pc = "y192") => historicalFitnesses' = historicalFitnesses
    /\ (pc = "r192") =>
           /\ historicalFitnesses' = Append(historicalFitnesses, heap[bestParent].Fitness)
           /\ yielded' = yielded
           /\ pc' = "loop"

\* the main loop has been entered (streak exists from line 162 on)
MainLoopEntered == streak # <<>>

\* the iteration that yielded last is suspended at line 192, for a time or
\* for good
AtYield192 == MainLoopEntered /\ pc \in {"y192", "r192", "returned"}

\* C18 as claimed: a child not worse than its parent takes the slot, with the
\* parent's age plus 1 and nothing else changed if the fitnesses are equal,
\* with age 0 if it is better; a better child that beats bestParent, and no
\* other, becomes bestParent, is yielded and has its fitness in the ledger.
C18_AcceptedChildIsRecorded ==
    /\ [][AcceptedStep]_vars
    /\ [](MainLoopEntered /\ pc \notin {"y192", "r192"} =>
              historicalFitnesses = Fitnesses(yielded))

\* C18, amended: the same, but the fitness of the yielded child is appended
\* to the ledger when the generator is resumed after line 192; the ledger
\* never gets the fitness of the improvement get_best returns.
C18_AcceptedChildIsRecordedOnResume ==
    /\ [][AcceptedStep /\ ResumedStep]_vars
    /\ [](MainLoopEntered =>
              IF AtYield192
              THEN historicalFitnesses = SubSeq(Fitnesses(yielded), 1, Len(yielded) - 1)
              ELSE historicalFitnesses = Fitnesses(yielded))

\* the child that became bestParent holds the only slot, and its fitness has
\* been appended to the ledger
C18_Witness ==
    /\ pc = "loop"
    /\ poolSize = 1
    /\ parents[1] = bestParent
    /\ heap[bestParent].Strategy # Create
    /\ Len(historicalFitnesses) = 2

\* C19 as claimed: when an iteration of the main loop begins, no Candidate
\* of the pool has a fitness above bestParent's.
C19_BestIsBestOfPool ==
    pc = "loop" =>
        \A i \in DOMAIN parents :
            heap[parents[i]].Fitness <= heap[bestParent].Fitness

\* C20 as claimed: with maxAge set, the age of every Candidate of the pool is
\* a natural number not above maxAge.
C20_AgeWithinMaxAge ==
    (maxAge # NoAge /\ InMainLoop) =>
        \A i \in DOMAIN parents :
            /\ heap[parents[i]].Age >= 0
            /\ heap[parents[i]].Age <= maxAge

\* C20, amended: with maxAge set, the age of every Candidate of the pool is a
\* natural number; when an iteration begins it is below maxAge for a
\* Candidate that took its slot with age 0 and has only been aged since by
\* worse children of that slot. A child of equal fitness takes the age of its
\* parent plus 1 unchecked, so such children take the age to maxAge and above.
C20_AgeBelowMaxAgeButLateral ==
    (maxAge # NoAge /\ InMainLoop) =>
        \A i \in DOMAIN parents :
            /\ heap[parents[i]].Age >= 0
            /\ (pc = "loop" /\ streak[i] >= 0) =>
                   /\ heap[parents[i]].Age = streak[i]
                   /\ heap[parents[i]].Age < maxAge

\* a Candidate that worse children have aged as far as they can
C20_Witness ==
    /\ maxAge # NoAge
    /\ pc = "loop"
    /\ \E i \in DOMAIN parents : streak[i] = maxAge - 1

====
